---- MODULE Spec2Model ----
(***************************************************************************)
(* A model of four components of neuralmonkey:                             *)
(*   trainers/rl_trainer.py         ReinforceObjective.loss                *)
(*   encoders/recurrent.py          RecurrentEncoder and its subclasses    *)
(*   decoders/sequence_regressor.py SequenceRegressor                      *)
(*   readers/numpy_reader.py        from_file_list                         *)
(*                                                                         *)
(* Real numbers are exact rationals <<numerator, denominator>> with a      *)
(* positive denominator.  Log-probabilities are measured in units of ln 2, *)
(* so that exp of a log-probability k is the rational 2^k.                 *)
(***************************************************************************)
EXTENDS Integers, Sequences, FiniteSets, TLC

VARIABLES
    \* ---- ReinforceObjective (rl_trainer.py) ----
    objective,        \* the constructor's arguments kept on self
    reward_counter,   \* tf.Variable "reward_counter"
    reward_sum,       \* tf.Variable "reward_sum"
    run,              \* the tensors of the latest evaluation of loss
    steps,            \* number of evaluations of loss so far
    total_samples,    \* history: samples drawn in all evaluations so far
    total_rewards,    \* history: sum of all rewards sampled so far
    prev_totals,      \* history: <<reward_sum, reward_counter>> before the latest evaluation
    rewards_seen      \* history: the set of reward values sampled so far

rlVars == <<objective, reward_counter, reward_sum, run, steps,
            total_samples, total_rewards, prev_totals, rewards_seen>>

VARIABLES
    \* ---- _score_with_reward_function (rl_trainer.py) ----
    references,       \* argument: indices of references, shape (time, batch)
    hypotheses,       \* argument: indices of hypotheses, shape (time, batch)
    score_pc,         \* "idle", "loop" or "returned"
    reward_calls,     \* the calls of self.reward_function made so far, in order
    rewards           \* the local list rewards, then the returned array

scoreVars == <<references, hypotheses, score_pc, reward_calls, rewards>>

VARIABLES
    \* ---- the encoders (recurrent.py) ----
    parts,            \* the objects constructed so far, in order of construction
    call,             \* the latest constructor call and its outcome
    deps              \* the latest call of get_dependencies and its result

encVars == <<parts, call, deps>>

VARIABLES
    \* ---- the rnn tensor of a recurrent encoder (recurrent.py) ----
    rnn_self,         \* the encoder's rnn_spec, and rnn_input and lengths of a batch
    rnn               \* the value of the rnn tensor once it is evaluated

rnnVars == <<rnn_self, rnn>>

VARIABLES
    \* ---- the sequence regressor (sequence_regressor.py) ----
    graph,            \* the first two encoders' summary vectors and what is fed
    regressor,        \* the SequenceRegressor constructed last, with its tensors
    earlier           \* prediction and cost of the regressor constructed before it

regVars == <<graph, regressor, earlier>>

VARIABLES
    \* ---- the feed dictionary of a sequence regressor (sequence_regressor.py) ----
    dataset,          \* the series of the dataset of one batch
    feed              \* the latest call of feed_dict and what it returned or raised

feedVars == <<dataset, feed>>

VARIABLES
    \* ---- the loader of from_file_list (numpy_reader.py) ----
    disk,             \* the list files given to the loader and the stored arrays
    loader,           \* the closure returned by from_file_list
    generators        \* the generators returned by calls of the loader

readVars == <<disk, loader, generators>>

vars == <<rlVars, scoreVars, encVars, rnnVars, regVars, feedVars, readVars>>

-----------------------------------------------------------------------------
(* Bounds of the model *)

MaxBatch == 2        \* examples in one batch
MaxSamples == 2      \* sample_size
MaxTime == 2         \* decoding steps of one sample
MaxCells == 8        \* entries of the reward and token log-probability arrays of one evaluation
MaxSteps == 3        \* evaluations of loss in one run of the training loop

\* the rewards the reward function returns
RewardValues == {0, 1, 2}
\* token log-probabilities, in units of ln 2
LogprobValues == {-1, 0}
\* the decoder's supervised cross-entropy cost (decoder.cost)
CostValues == {1, 2}
\* ce_smoothing coefficients
SmoothingValues == {0, 1}

MaxLen == 3          \* time dimension of the arrays scored by the reward function
MaxColumns == 2      \* batch dimension of the arrays scored by the reward function
MaxIndices == 8      \* indices in the two arrays scored by the reward function

MaxLayers == 3       \* length of rnn_sizes and of rnn_directions
MaxVectorCells == 2  \* entries of one encoder's summary vectors over a batch
MaxEncoders == 3     \* length of the encoders list of a regressor
MaxFiles == 2        \* list files given to the loader
MaxLines == 3        \* lines of all the list files together
MaxTargets == 2      \* values in one example of a series

\* constructor arguments
SizeValues == {0, 1, 2}
DirectionValues == {"forward", "backward", "both", "sideways"}
CellValues == {"GRU", "LSTM", "RNN"}
\* dropout_keep_prob, in tenths
DropoutValues == {0, 5, 10, 11}

-----------------------------------------------------------------------------
(* Exact arithmetic *)

RECURSIVE Pow2(_)
Pow2(k) == IF k <= 0 THEN 1 ELSE 2 * Pow2(k - 1)

RECURSIVE SumTo(_, _)
SumTo(s, n) == IF n = 0 THEN 0 ELSE s[n] + SumTo(s, n - 1)

SumSeq(s) == SumTo(s, Len(s))

RECURSIVE MinTo(_, _)
MinTo(s, n) == IF n = 1 THEN s[1]
               ELSE LET m == MinTo(s, n - 1) IN IF s[n] < m THEN s[n] ELSE m

MinSeq(s) == MinTo(s, Len(s))

Max(a, b) == IF a > b THEN a ELSE b

Rat(n) == <<n, 1>>
RatAdd(a, b) == <<a[1] * b[2] + b[1] * a[2], a[2] * b[2]>>
RatSub(a, b) == <<a[1] * b[2] - b[1] * a[2], a[2] * b[2]>>
RatMul(a, b) == <<a[1] * b[1], a[2] * b[2]>>
RatNeg(a) == <<-a[1], a[2]>>
RatDivInt(a, n) == <<a[1], a[2] * n>>
RatEq(a, b) == a[1] * b[2] = b[1] * a[2]

RECURSIVE RatSumTo(_, _)
RatSumTo(s, n) == IF n = 0 THEN Rat(0) ELSE RatAdd(s[n], RatSumTo(s, n - 1))

RatSum(s) == RatSumTo(s, Len(s))

-----------------------------------------------------------------------------
(* ReinforceObjective.loss, rl_trainer.py *)

\* sent_logprobs = tf.reduce_sum(word_logprobs, axis=0): no masking
SentLogprobs(word_logprobs) ==
    [b \in 1..Len(word_logprobs[1]) |->
        SumSeq([t \in 1..Len(word_logprobs) |-> word_logprobs[t][b]])]

\* tf.stack(samples_logprobs): sample_size x batch
SamplesLogprobsStacked(samples_word_logprobs) ==
    [s \in 1..Len(samples_word_logprobs) |-> SentLogprobs(samples_word_logprobs[s])]

\* tf.to_float(self.decoder.batch_size * self.sample_size)
CounterIncrementBatchOnly(batch_size, sample_size) == batch_size
CounterIncrement(batch_size, sample_size) == batch_size * sample_size

\* tf.reduce_sum(samples_rewards_stacked)
RewardIncrement(samples_rewards) ==
    SumSeq([s \in 1..Len(samples_rewards) |-> SumSeq(samples_rewards[s])])

\* baseline = tf.div(reward_sum, tf.maximum(reward_counter, 1.0)), read
\* through the tensors the two assign_add operations return
BaselineSmoothed(sum_after, counter_after) == <<sum_after, counter_after + 1>>
Baseline(sum_after, counter_after) == <<sum_after, Max(counter_after, 1)>>

\* samples_rewards_stacked -= baseline
SubtractBaseline(samples_rewards, baseline) ==
    [s \in 1..Len(samples_rewards) |->
        [b \in 1..Len(samples_rewards[s]) |->
            RatSub(Rat(samples_rewards[s][b]), baseline)]]

ToRat(matrix) ==
    [s \in 1..Len(matrix) |-> [b \in 1..Len(matrix[s]) |-> Rat(matrix[s][b])]]

\* tf.nn.softmax(samples_logprobs_stacked * self.alpha, dim=0)
Softmax(logprobs, alpha) ==
    [s \in 1..Len(logprobs) |->
        [b \in 1..Len(logprobs[s]) |->
            LET column == [k \in 1..Len(logprobs) |-> alpha * logprobs[k][b]]
                low == MinSeq(column)
                weights == [k \in 1..Len(column) |-> Pow2(column[k] - low)]
            IN  <<weights[s], SumSeq(weights)>>]]

\* scored_probs = tf.stop_gradient(tf.negative(rewards)) * logprobs
ScoredProbs(stacked_rewards, probs) ==
    [s \in 1..Len(stacked_rewards) |->
        [b \in 1..Len(stacked_rewards[s]) |->
            RatMul(RatNeg(stacked_rewards[s][b]), probs[s][b])]]

\* total_loss = tf.reduce_sum(scored_probs, axis=0)
TotalLoss(scored_probs) ==
    [b \in 1..Len(scored_probs[1]) |->
        RatSum([s \in 1..Len(scored_probs) |-> scored_probs[s][b]])]

\* batch_loss = tf.reduce_mean(total_loss)
BatchLossSummed(total_loss) == RatSum(total_loss)
BatchLoss(total_loss) == RatDivInt(RatSum(total_loss), Len(total_loss))

\* the default of the constructor's alpha
alpha == 1

\* History: the entries of a (sample, batch) array, and their sum
Entries(array) == {<<s, b>> : s \in 1..Len(array), b \in 1..Len(array[1])}

RECURSIVE SumOfEntries(_, _)
SumOfEntries(array, entries) ==
    IF entries = {} THEN 0
    ELSE LET e == CHOOSE e \in entries : TRUE
         IN  array[e[1]][e[2]] + SumOfEntries(array, entries \ {e})

NoRun == [batch_size |-> 0]

\* One evaluation of the loss tensor (one training step).  batch_size is the
\* batch dimension of this step, samples_rewards the (sample, batch) array of
\* the rewards py_func returned, samples_word_logprobs the (sample, time,
\* batch) array of token log-probabilities, cost the decoder's own cost.
Loss(batch_size, samples_rewards, samples_word_logprobs, cost) ==
    LET logprobs == SamplesLogprobsStacked(samples_word_logprobs)
        counter_after ==
            IF objective.subtract_baseline
            THEN reward_counter + CounterIncrement(batch_size, objective.sample_size)
            ELSE reward_counter
        sum_after ==
            IF objective.subtract_baseline
            THEN reward_sum + RewardIncrement(samples_rewards)
            ELSE reward_sum
        baseline == Baseline(sum_after, counter_after)
        samples_rewards_stacked ==
                   IF objective.subtract_baseline
                   THEN SubtractBaseline(samples_rewards, baseline)
                   ELSE ToRat(samples_rewards)
        probs == IF objective.normalize
                 THEN Softmax(logprobs, alpha)
                 ELSE ToRat(logprobs)
        scored_probs == ScoredProbs(samples_rewards_stacked, probs)
        total_loss == TotalLoss(scored_probs)
        mean_loss == BatchLoss(total_loss)
        batch_loss == IF objective.ce_smoothing > 0
                      THEN RatAdd(mean_loss, Rat(objective.ce_smoothing * cost))
                      ELSE mean_loss
    IN  /\ reward_counter' = counter_after
        /\ reward_sum' = sum_after
        /\ run' = [batch_size |-> batch_size,
                   samples_rewards |-> samples_rewards,
                   samples_word_logprobs |-> samples_word_logprobs,
                   cost |-> cost,
                   baseline |-> IF objective.subtract_baseline
                                THEN baseline ELSE Rat(0),
                   rewards_used |-> samples_rewards_stacked,
                   batch_loss |-> batch_loss]
        /\ steps' = steps + 1
        /\ total_samples' = total_samples + Cardinality(Entries(samples_rewards))
        /\ total_rewards' = total_rewards
                                + SumOfEntries(samples_rewards, Entries(samples_rewards))
        /\ prev_totals' = <<reward_sum, reward_counter>>
        /\ rewards_seen' = rewards_seen \cup
               {samples_rewards[s][b] : s \in 1..Len(samples_rewards), b \in 1..batch_size}
        /\ UNCHANGED objective

\* ReinforceObjective.__init__ and the variables' initial values
RLInit ==
    /\ objective \in [subtract_baseline : BOOLEAN, normalize : BOOLEAN,
                      ce_smoothing : SmoothingValues, sample_size : 1..MaxSamples]
    /\ reward_counter = 0
    /\ reward_sum = 0
    /\ run = NoRun
    /\ steps = 0
    /\ total_samples = 0
    /\ total_rewards = 0
    /\ prev_totals = <<0, 0>>
    /\ rewards_seen = {}

\* The (sample, time, batch) arrays of token log-probabilities over values
LogprobArrays(sample_size, time, batch_size, values) ==
    [1..sample_size -> [1..time -> [1..batch_size -> values]]]

\* The training loop: every evaluation decodes MaxTime positions whose token
\* log-probability is -1, and the decoder's cost is 1; batch size and rewards vary.
TrainStep ==
    /\ steps < MaxSteps
    /\ \E batch_size \in 1..MaxBatch :
          /\ objective.sample_size * batch_size * (1 + MaxTime) <= MaxCells
          /\ \E samples_rewards \in [1..objective.sample_size -> [1..batch_size -> RewardValues]],
                samples_word_logprobs \in
                    LogprobArrays(objective.sample_size, MaxTime, batch_size, {-1}) :
                Loss(batch_size, samples_rewards, samples_word_logprobs, 1)

\* The first evaluation alone, over every shape and value of its inputs.
FirstStep ==
    /\ steps = 0
    /\ \E batch_size \in 1..MaxBatch, time \in 1..MaxTime :
          /\ objective.sample_size * batch_size * (1 + time) <= MaxCells
          /\ \E samples_rewards \in [1..objective.sample_size -> [1..batch_size -> RewardValues]],
                samples_word_logprobs \in
                    LogprobArrays(objective.sample_size, time, batch_size, LogprobValues),
                cost \in CostValues :
                Loss(batch_size, samples_rewards, samples_word_logprobs, cost)

RLIdle ==
    /\ objective = [subtract_baseline |-> FALSE, normalize |-> FALSE,
                    ce_smoothing |-> 0, sample_size |-> 1]
    /\ reward_counter = 0
    /\ reward_sum = 0
    /\ run = NoRun
    /\ steps = 0
    /\ total_samples = 0
    /\ total_rewards = 0
    /\ prev_totals = <<0, 0>>
    /\ rewards_seen = {}

-----------------------------------------------------------------------------
(* _score_with_reward_function, rl_trainer.py *)

\* Strings are sequences of characters.
Space == " "
END_TOKEN == <<"<", "/", "s", ">">>
PAD_TOKEN == <<"<", "p", "a", "d", ">">>
BpeMarker == <<"@", "@">>

\* self.decoder.vocabulary.index_to_word, indexed from 0
index_to_word == <<PAD_TOKEN, END_TOKEN, <<"a">>, <<"b", "@", "@">>>>

IndexToWord(index) == index_to_word[index + 1]

TokenIndices == 0..(Len(index_to_word) - 1)

\* references.transpose()[column]: one row of the transposed array
Column(array, column) == [t \in 1..Len(array) |-> array[t][column]]

\* for token in column: if token in (END_TOKEN, PAD_TOKEN): break; seq.append(token)
RECURSIVE CollectFrom(_, _)
CollectFrom(indices, i) ==
    IF i > Len(indices) THEN <<>>
    ELSE LET token == IndexToWord(indices[i])
         IN  IF token \in {END_TOKEN, PAD_TOKEN} THEN <<>>
             ELSE <<token>> \o CollectFrom(indices, i + 1)

Collect(indices) == CollectFrom(indices, 1)

\* " ".join(seq)
RECURSIVE JoinFrom(_, _)
JoinFrom(seq, i) ==
    IF i > Len(seq) THEN <<>>
    ELSE IF i = Len(seq) THEN seq[i]
    ELSE seq[i] \o <<Space>> \o JoinFrom(seq, i + 1)

Join(seq) == JoinFrom(seq, 1)

\* text.replace("@@ ", ""): the leftmost occurrences, not overlapping
RECURSIVE ReplaceFrom(_, _)
ReplaceFrom(text, i) ==
    IF i > Len(text) THEN <<>>
    ELSE IF /\ i + 2 <= Len(text)
            /\ SubSeq(text, i, i + 2) = BpeMarker \o <<Space>>
         THEN ReplaceFrom(text, i + 3)
         ELSE <<text[i]>> \o ReplaceFrom(text, i + 1)

Replace(text) == ReplaceFrom(text, 1)

\* text.split(" "): one piece more than there are separators, "" gives [""]
RECURSIVE SplitFrom(_, _, _)
SplitFrom(text, i, piece) ==
    IF i > Len(text) THEN <<piece>>
    ELSE IF text[i] = Space THEN <<piece>> \o SplitFrom(text, i + 1, <<>>)
    ELSE SplitFrom(text, i + 1, Append(piece, text[i]))

Split(text) == SplitFrom(text, 1, <<>>)

\* " ".join(seq).replace("@@ ", "").split(" ")
Tokens(seq) == Split(Replace(Join(seq)))

\* the reward function of the model, standing for any evaluator: 1 when the
\* hypothesis equals the reference, else 0
RewardFunction(hyps_batch, refs_batch) == IF hyps_batch = refs_batch THEN 1 ELSE 0

\* One iteration of the loop over zip(references.transpose(), hypotheses.transpose())
ScoreColumn ==
    /\ score_pc = "loop"
    /\ Len(rewards) < Len(references[1])
    /\ LET column == Len(rewards) + 1
           ref_seq == Collect(Column(references, column))
           hyp_seq == Collect(Column(hypotheses, column))
           refs_tokens == Tokens(ref_seq)
           hyps_tokens == Tokens(hyp_seq)
       IN  /\ reward_calls' = Append(reward_calls,
                                     [hyps |-> <<hyps_tokens>>, refs |-> <<refs_tokens>>])
           /\ rewards' = Append(rewards, RewardFunction(<<hyps_tokens>>, <<refs_tokens>>))
    /\ UNCHANGED <<references, hypotheses, score_pc, rlVars>>

\* return np.array(rewards, dtype=np.float32)
ScoreReturn ==
    /\ score_pc = "loop"
    /\ Len(rewards) = Len(references[1])
    /\ score_pc' = "returned"
    /\ UNCHANGED <<references, hypotheses, reward_calls, rewards, rlVars>>

\* tf.py_func calls the function with two (time, batch) arrays of one batch
ScoreInit ==
    /\ \E batch \in 1..MaxColumns, ref_time \in 1..MaxLen, hyp_time \in 1..MaxLen :
          /\ (ref_time + hyp_time) * batch <= MaxIndices
          /\ references \in [1..ref_time -> [1..batch -> TokenIndices]]
          /\ hypotheses \in [1..hyp_time -> [1..batch -> TokenIndices]]
    /\ score_pc = "loop"
    /\ reward_calls = <<>>
    /\ rewards = <<>>

ScoreIdle ==
    /\ references = <<>>
    /\ hypotheses = <<>>
    /\ score_pc = "idle"
    /\ reward_calls = <<>>
    /\ rewards = <<>>

-----------------------------------------------------------------------------
(* The encoders, recurrent.py *)

RNN_CELL_TYPES == {"NematusGRU", "GRU", "LSTM"}
RNN_DIRECTIONS == {"forward", "backward", "both"}

NoError == "none"
SizeError == "RNN size must be a positive integer."
DirectionError == "RNN direction must be one of RNN_DIRECTIONS."
CellError == "RNN cell type must be one of RNN_CELL_TYPES."
DropoutError == "Dropout keep prob must be inside (0,1]."
LengthError == "Different number of rnn sizes and directions."
IndexError == "IndexError: list index out of range"

NoSpec == [size |-> 0, direction |-> "none", cell_type |-> "none"]

\* _make_rnn_spec: the RNNSpec, or the ValueError raised
MakeRnnSpecDefaulting(size, direction, cell_type) ==
    [error |-> NoError,
     spec |-> [size |-> IF size <= 0 THEN 1 ELSE size,
               direction |-> IF direction \notin RNN_DIRECTIONS THEN "both" ELSE direction,
               cell_type |-> IF cell_type \notin RNN_CELL_TYPES THEN "GRU" ELSE cell_type]]
MakeRnnSpec(size, direction, cell_type) ==
    IF size <= 0 THEN [error |-> SizeError, spec |-> NoSpec]
    ELSE IF direction \notin RNN_DIRECTIONS THEN [error |-> DirectionError, spec |-> NoSpec]
    ELSE IF cell_type \notin RNN_CELL_TYPES THEN [error |-> CellError, spec |-> NoSpec]
    ELSE [error |-> NoError,
          spec |-> [size |-> size, direction |-> direction, cell_type |-> cell_type]]

\* self.dropout_keep_prob <= 0.0 or self.dropout_keep_prob > 1.0, in tenths
DropoutOutOfRange(dropout_keep_prob) == dropout_keep_prob <= 0 \/ dropout_keep_prob > 10

\* an object of the graph: a TemporalStateful that is or is not a ModelPart
Part(class, model_part, input_sequence, rnn_spec, dropout_keep_prob) ==
    [class |-> class, model_part |-> model_part, input_sequence |-> input_sequence,
     rnn_spec |-> rnn_spec, dropout_keep_prob |-> dropout_keep_prob]

\* EmbeddedSequence(...) and EmbeddedFactorSequence(...): a ModelPart without upstream
EmbeddedInput(class) == Part(class, TRUE, 0, NoSpec, 10)

\* RecurrentEncoder.__init__ over the objects heap: the objects afterwards,
\* the error raised and the index of the encoder constructed (0 when it failed)
RecurrentEncoderInit(heap, class, input_sequence, rnn_size, rnn_cell, rnn_direction, dropout_keep_prob) ==
    LET made == MakeRnnSpec(rnn_size, rnn_direction, rnn_cell)
    IN  IF made.error # NoError
        THEN [heap |-> heap, error |-> made.error, self |-> 0]
        ELSE IF DropoutOutOfRange(dropout_keep_prob)
        THEN [heap |-> heap, error |-> DropoutError, self |-> 0]
        ELSE [heap |-> Append(heap, Part(class, TRUE, input_sequence, made.spec,
                                         dropout_keep_prob)),
              error |-> NoError,
              self |-> Len(heap) + 1]

\* zip(rnn_sizes[:-1], rnn_directions)
LowerLayersShifted(rnn_sizes, rnn_directions) ==
    LET n == IF Len(rnn_sizes) - 1 < Len(rnn_directions)
             THEN Len(rnn_sizes) - 1 ELSE Len(rnn_directions)
    IN  [i \in 1..n |-> <<rnn_sizes[i + 1], rnn_directions[i]>>]
LowerLayers(rnn_sizes, rnn_directions) ==
    LET n == IF Len(rnn_sizes) - 1 < Len(rnn_directions)
             THEN Len(rnn_sizes) - 1 ELSE Len(rnn_directions)
    IN  [i \in 1..n |-> <<rnn_sizes[i], rnn_directions[i]>>]

\* the loop of DeepSentenceEncoder.__init__ from layer `level` on: the
\* objects afterwards, the error raised and the last layer constructed
RECURSIVE BuildLowerLayers(_, _, _, _, _, _)
BuildLowerLayers(heap, prev_layer, layers, level, rnn_cell, dropout_keep_prob) ==
    IF level > Len(layers) THEN [heap |-> heap, error |-> NoError, self |-> prev_layer]
    ELSE LET built == RecurrentEncoderInit(heap, "RecurrentEncoder", prev_layer,
                                           layers[level][1], rnn_cell, layers[level][2],
                                           dropout_keep_prob)
         IN  IF built.error # NoError THEN built
             ELSE BuildLowerLayers(built.heap, built.self, layers, level + 1,
                                   rnn_cell, dropout_keep_prob)

\* DeepSentenceEncoder.__init__
DeepSentenceEncoderInit(heap, rnn_sizes, rnn_directions, rnn_cell, dropout_keep_prob) ==
    IF Len(rnn_sizes) # Len(rnn_directions)
    THEN [heap |-> heap, error |-> LengthError, self |-> 0]
    ELSE LET embedded == Append(heap, EmbeddedInput("EmbeddedSequence"))
             lower == BuildLowerLayers(embedded, Len(embedded),
                                       LowerLayers(rnn_sizes, rnn_directions), 1,
                                       rnn_cell, dropout_keep_prob)
         IN  IF lower.error # NoError THEN lower
             ELSE IF Len(rnn_sizes) = 0
             THEN [heap |-> lower.heap, error |-> IndexError, self |-> 0]
             ELSE RecurrentEncoderInit(lower.heap, "DeepSentenceEncoder", lower.self,
                                       rnn_sizes[Len(rnn_sizes)], rnn_cell,
                                       rnn_directions[Len(rnn_directions)],
                                       dropout_keep_prob)

NoCall == [op |-> "none", error |-> NoError, created |-> <<>>, self |-> 0]
NoDeps == [of |-> 0, result |-> {}]

\* the outcome of a constructor call: what it raised, what it constructed
Outcome(op, args, built) ==
    /\ parts' = built.heap
    /\ call' = [op |-> op, args |-> args, error |-> built.error,
                created |-> [i \in 1..(Len(built.heap) - Len(parts)) |-> Len(parts) + i],
                self |-> built.self]
    /\ deps' = NoDeps

\* RecurrentEncoder(name, input_sequence, rnn_size, rnn_cell, rnn_direction, dropout_keep_prob)
ConstructRecurrentEncoder ==
    /\ call = NoCall
    /\ \E input_sequence \in 1..Len(parts), rnn_size \in SizeValues, rnn_cell \in CellValues,
          rnn_direction \in DirectionValues, dropout_keep_prob \in DropoutValues :
          Outcome("RecurrentEncoder",
                  [input_sequence |-> input_sequence, rnn_size |-> rnn_size,
                   rnn_cell |-> rnn_cell, rnn_direction |-> rnn_direction,
                   dropout_keep_prob |-> dropout_keep_prob],
                  RecurrentEncoderInit(parts, "RecurrentEncoder", input_sequence, rnn_size,
                                       rnn_cell, rnn_direction, dropout_keep_prob))

\* SentenceEncoder(name, vocabulary, data_id, embedding_size, rnn_size, ...)
ConstructSentenceEncoder ==
    /\ call = NoCall
    /\ \E rnn_size \in SizeValues, rnn_cell \in CellValues,
          rnn_direction \in DirectionValues, dropout_keep_prob \in DropoutValues :
          LET embedded == Append(parts, EmbeddedInput("EmbeddedSequence"))
          IN  Outcome("SentenceEncoder",
                      [rnn_size |-> rnn_size, rnn_cell |-> rnn_cell,
                       rnn_direction |-> rnn_direction,
                       dropout_keep_prob |-> dropout_keep_prob],
                      RecurrentEncoderInit(embedded, "SentenceEncoder", Len(embedded),
                                           rnn_size, rnn_cell, rnn_direction,
                                           dropout_keep_prob))

\* FactoredEncoder(name, vocabularies, data_ids, embedding_sizes, rnn_size, ...)
ConstructFactoredEncoder ==
    /\ call = NoCall
    /\ \E rnn_size \in SizeValues, rnn_cell \in CellValues,
          rnn_direction \in DirectionValues, dropout_keep_prob \in DropoutValues :
          LET embedded == Append(parts, EmbeddedInput("EmbeddedFactorSequence"))
          IN  Outcome("FactoredEncoder",
                      [rnn_size |-> rnn_size, rnn_cell |-> rnn_cell,
                       rnn_direction |-> rnn_direction,
                       dropout_keep_prob |-> dropout_keep_prob],
                      RecurrentEncoderInit(embedded, "FactoredEncoder", Len(embedded),
                                           rnn_size, rnn_cell, rnn_direction,
                                           dropout_keep_prob))

\* DeepSentenceEncoder(name, vocabulary, data_id, embedding_size, rnn_sizes, rnn_directions, ...)
ConstructDeepSentenceEncoder ==
    /\ call = NoCall
    /\ \E n_sizes \in 0..MaxLayers, n_directions \in 0..MaxLayers :
          \E rnn_sizes \in [1..n_sizes -> SizeValues],
             rnn_directions \in [1..n_directions -> DirectionValues],
             rnn_cell \in CellValues, dropout_keep_prob \in DropoutValues :
             Outcome("DeepSentenceEncoder",
                     [rnn_sizes |-> rnn_sizes, rnn_directions |-> rnn_directions,
                      rnn_cell |-> rnn_cell, dropout_keep_prob |-> dropout_keep_prob],
                     DeepSentenceEncoderInit(parts, rnn_sizes, rnn_directions, rnn_cell,
                                             dropout_keep_prob))

\* ModelPart.get_dependencies of a part that names no further parts: itself
ModelPartGetDependencies(heap, part) == {part}

\* RecurrentEncoder.get_dependencies; an EmbeddedSequence inherits ModelPart's
GetDependenciesDirect(heap, part) ==
    LET own == ModelPartGetDependencies(heap, part)
        input_sequence == heap[part].input_sequence
    IN  IF input_sequence # 0 /\ heap[input_sequence].model_part
        THEN own \cup {input_sequence}
        ELSE own
RECURSIVE GetDependencies(_, _)
GetDependencies(heap, part) ==
    LET own == ModelPartGetDependencies(heap, part)
        input_sequence == heap[part].input_sequence
    IN  IF input_sequence # 0 /\ heap[input_sequence].model_part
        THEN own \cup GetDependencies(heap, input_sequence)
        ELSE own

\* encoder.get_dependencies() on a model part of a model that was built
CallGetDependencies ==
    /\ call # NoCall
    /\ call.error = NoError
    /\ \E part \in 1..Len(parts) :
          /\ parts[part].model_part
          /\ deps' = [of |-> part, result |-> GetDependencies(parts, part)]
    /\ UNCHANGED <<parts, call>>

\* Before any encoder is built the graph holds the inputs an encoder can be
\* given: a TemporalStateful that is no ModelPart, and an EmbeddedSequence.
EncInit ==
    /\ parts = <<Part("TemporalStateful", FALSE, 0, NoSpec, 10),
                 EmbeddedInput("EmbeddedSequence")>>
    /\ call = NoCall
    /\ deps = NoDeps

EncIdle ==
    /\ parts = <<>>
    /\ call = NoCall
    /\ deps = NoDeps

-----------------------------------------------------------------------------
(* RecurrentEncoder.rnn, recurrent.py *)

\* self.rnn_input[b][t] of a valid position is one of TokenValues, that of a
\* padded position is PadValue
TokenValues == {1, 2}
PadValue == 0

\* tf.reverse_sequence(x, lengths, seq_axis=1)
ReverseSequenceFull(x, lengths) ==
    [b \in 1..Len(x) |-> [t \in 1..Len(x[b]) |-> x[b][Len(x[b]) - t + 1]]]
ReverseSequence(x, lengths) ==
    [b \in 1..Len(x) |->
        [t \in 1..Len(x[b]) |->
            IF t <= lengths[b] THEN x[b][lengths[b] - t + 1] ELSE x[b][t]]]

\* The cell is kept abstract: its hidden state is the sequence of the inputs
\* it has consumed, and its output is its hidden state.
ZeroState(cell_type) ==
    IF cell_type = "LSTM" THEN [c |-> 0, h |-> <<>>] ELSE <<>>
CellStep(cell_type, state, input) ==
    IF cell_type = "LSTM" THEN [c |-> state.c + 1, h |-> Append(state.h, input)]
    ELSE Append(state, input)
CellOutput(cell_type, state) ==
    IF cell_type = "LSTM" THEN state.h ELSE state
ZeroOutput == <<>>

\* the state of the cell after the first n time steps of one example
RECURSIVE StateAfter(_, _, _)
StateAfter(cell_type, example, n) ==
    IF n = 0 THEN ZeroState(cell_type)
    ELSE CellStep(cell_type, StateAfter(cell_type, example, n - 1), example[n])

\* tf.nn.dynamic_rnn(cell, inputs, sequence_length): past the length of an
\* example the output is zero and the state is copied through
DynamicRnn(cell_type, inputs, lengths) ==
    [outputs |->
        [b \in 1..Len(inputs) |->
            [t \in 1..Len(inputs[b]) |->
                IF t <= lengths[b]
                THEN CellOutput(cell_type, StateAfter(cell_type, inputs[b], t))
                ELSE ZeroOutput]],
     final_state |->
        [b \in 1..Len(inputs) |-> StateAfter(cell_type, inputs[b], lengths[b])]]

\* tf.nn.bidirectional_dynamic_rnn(fw_cell, bw_cell, inputs, sequence_length)
BidirectionalDynamicRnn(cell_type, inputs, lengths) ==
    LET fw == DynamicRnn(cell_type, inputs, lengths)
        bw == DynamicRnn(cell_type, ReverseSequence(inputs, lengths), lengths)
    IN  [outputs_tup |-> <<fw.outputs, ReverseSequence(bw.outputs, lengths)>>,
         states_tup |-> <<fw.final_state, bw.final_state>>]

\* tf.concat(outputs_tup, 2)
ConcatOutputs(outputs_tup) ==
    [b \in 1..Len(outputs_tup[1]) |->
        [t \in 1..Len(outputs_tup[1][b]) |->
            <<outputs_tup[1][b][t], outputs_tup[2][b][t]>>]]

\* state.h of every example
HiddenOf(cell_type, final_state) ==
    [b \in 1..Len(final_state) |-> CellOutput(cell_type, final_state[b])]

\* RecurrentEncoder.rnn
Rnn(spec, self_rnn_input, lengths) ==
    IF spec.direction = "both"
    THEN LET both == BidirectionalDynamicRnn(spec.cell_type, self_rnn_input, lengths)
         IN  [rnn_input |-> self_rnn_input,
              outputs |-> ConcatOutputs(both.outputs_tup),
              final_state |->
                 [b \in 1..Len(self_rnn_input) |->
                     <<CellOutput(spec.cell_type, both.states_tup[1][b]),
                       CellOutput(spec.cell_type, both.states_tup[2][b])>>]]
    ELSE LET rnn_input == IF spec.direction = "backward"
                          THEN ReverseSequence(self_rnn_input, lengths)
                          ELSE self_rnn_input
             ran == DynamicRnn(spec.cell_type, rnn_input, lengths)
             outputs == IF spec.direction = "backward"
                        THEN ReverseSequence(ran.outputs, lengths)
                        ELSE ran.outputs
         IN  [rnn_input |-> rnn_input,
              outputs |-> outputs,
              final_state |-> HiddenOf(spec.cell_type, ran.final_state)]

NoRnn == [outputs |-> <<>>]

\* self.rnn_input of a batch: the tokens of each example, then its padding
PadBatch(tokens, lengths) ==
    [b \in 1..Len(tokens) |->
        [t \in 1..Len(tokens[b]) |->
            IF t <= lengths[b] THEN tokens[b][t] ELSE PadValue]]

\* a constructed encoder and the batch its rnn tensor is evaluated on
RnnInit ==
    /\ \E direction \in RNN_DIRECTIONS, cell_type \in RNN_CELL_TYPES,
          batch \in 1..MaxBatch, time \in 1..MaxLen :
          /\ batch * time <= MaxIndices
          /\ \E lengths \in [1..batch -> 0..time],
                tokens \in [1..batch -> [1..time -> TokenValues]] :
                /\ \A b \in 1..batch : \A t \in 1..time :
                      t > lengths[b] => tokens[b][t] = 1
                /\ rnn_self = [rnn_spec |-> [size |-> 1, direction |-> direction,
                                             cell_type |-> cell_type],
                               rnn_input |-> PadBatch(tokens, lengths),
                               lengths |-> lengths]
    /\ rnn = NoRnn

\* the evaluation of the rnn tensor
EvaluateRnn ==
    /\ rnn = NoRnn
    /\ rnn' = Rnn(rnn_self.rnn_spec, rnn_self.rnn_input, rnn_self.lengths)
    /\ UNCHANGED rnn_self

RnnIdle ==
    /\ rnn_self = [rnn_spec |-> NoSpec, rnn_input |-> <<>>, lengths |-> <<>>]
    /\ rnn = NoRnn

-----------------------------------------------------------------------------
(* SequenceRegressor, sequence_regressor.py *)

\* entries of enc.encoded and of gt_inputs
EncodedValues == {0, 1}
TargetValues == {0, 1}
\* layers: one hidden layer of a size below, or none for size 0
HiddenSizes == {0, 1}
\* the values the variables of the projections were initialised or restored to
SeedValues == {0, 1}

\* tf.concat([enc.encoded for enc in encoders], 1)
RECURSIVE ConcatFrom(_, _, _)
ConcatFrom(encoders, ex, i) ==
    IF i > Len(encoders) THEN <<>>
    ELSE encoders[i][ex] \o ConcatFrom(encoders, ex, i + 1)
Concat(encoders) ==
    [ex \in 1..Len(encoders[1]) |-> ConcatFrom(encoders, ex, 1)]

\* tf.subtract(encoders[0].encoded, encoders[1].encoded)
Subtract(a, b) ==
    [ex \in 1..Len(a) |-> [j \in 1..Len(a[ex]) |-> a[ex][j] - b[ex][j]]]

\* mlp_input, assigned twice
MlpInputConcat(encoders) == Concat(encoders)
MlpInput(encoders) ==
    LET concatenated == Concat(encoders)
    IN  Subtract(encoders[1], encoders[2])

\* the kernel and the bias of the dense layer `layer`
Kernel(seed, layer, j, k) == IF (seed + layer + j + k) % 2 = 0 THEN 1 ELSE -1
Bias(seed, layer) == seed

\* sum over j <= n of x[j] * kernel[j][k]
RECURSIVE DotTo(_, _, _, _, _)
DotTo(x, seed, layer, k, n) ==
    IF n = 0 THEN 0
    ELSE DotTo(x, seed, layer, k, n - 1) + x[n] * Kernel(seed, layer, n, k)

\* tf.layers.dense(x, size) of a batch, without activation
Dense(x, size, seed, layer) ==
    [ex \in 1..Len(x) |->
        [k \in 1..size |-> DotTo(x[ex], seed, layer, k, Len(x[ex])) + Bias(seed, layer)]]

\* activation_fn: a saturating nonlinearity in place of tf.tanh
Activation(v) == IF v > 1 THEN 1 ELSE IF v < -1 THEN -1 ELSE v

\* dropout(x, keep_prob, train_mode) with the default keep_prob = 0.5: in
\* training the entries the mask keeps are scaled by 1 / keep_prob
Dropout(x, mask, train_mode) ==
    IF train_mode
    THEN [ex \in 1..Len(x) |-> [k \in 1..Len(x[ex]) |-> 2 * x[ex][k] * mask[ex][k]]]
    ELSE x

\* multilayer_projection(mlp_input, layers, activation, train_mode, dropout_keep_prob)
RECURSIVE MultilayerProjection(_, _, _, _, _, _)
MultilayerProjection(x, layers, level, seed, mask, train_mode) ==
    IF level > Len(layers) THEN x
    ELSE LET projected == Dense(x, layers[level], seed, level)
             activated == [ex \in 1..Len(x) |->
                              [k \in 1..layers[level] |-> Activation(projected[ex][k])]]
         IN  MultilayerProjection(Dropout(activated, mask, train_mode), layers,
                                  level + 1, seed, mask, train_mode)

\* linear(mlp, 1)
Linear(x, size, seed) == Dense(x, size, seed, 0)

\* tf.reduce_sum(tf.square(mlp_logits - tf.expand_dims(self.gt_inputs, 1)))
RECURSIVE CostTo(_, _, _)
CostTo(mlp_logits, gt_inputs, n) ==
    IF n = 0 THEN 0
    ELSE CostTo(mlp_logits, gt_inputs, n - 1)
         + (mlp_logits[n][1] - gt_inputs[n]) * (mlp_logits[n][1] - gt_inputs[n])

\* SequenceRegressor.__init__ and its tensors evaluated on a batch
SequenceRegressorInit(encoders, layers, fed) ==
    LET mlp_input == MlpInput(encoders)
        mlp == MultilayerProjection(mlp_input, layers, 1, fed.seed, fed.mask, fed.train_mode)
        mlp_logits == Linear(mlp, 1, fed.seed)
        cost == CostTo(mlp_logits, fed.gt_inputs, Len(mlp_logits))
    IN  [encoders |-> encoders,
         layers |-> layers,
         predicted |-> mlp_logits,
         cost |-> cost,
         train_loss |-> cost,
         runtime_loss |-> cost,
         decoded |-> mlp_logits]

NoRegressor == [encoders |-> <<>>]
NoEarlier == [built |-> FALSE]

\* the summary vectors of a batch: one vector of `dim` entries for each example
Encoded(batch, dim) == [1..batch -> [1..dim -> EncodedValues]]

\* further encoders, whose summary vectors hold at most `cells` entries in all
RECURSIVE FurtherEncoders(_, _, _)
FurtherEncoders(batch, n, cells) ==
    IF n = 0 THEN {<<>>}
    ELSE UNION {{<<first>> \o rest : first \in Encoded(batch, dim),
                                     rest \in FurtherEncoders(batch, n - 1, cells - batch * dim)} :
                dim \in {d \in 1..cells : batch * d <= cells}}

\* The two encoders every regressor is given, and what a batch feeds.
RegInit ==
    /\ \E batch \in 1..MaxBatch, dim \in 1..MaxVectorCells, hidden \in HiddenSizes :
          /\ batch * dim <= MaxVectorCells
          /\ batch * hidden <= MaxVectorCells
          /\ \E first \in Encoded(batch, dim), second \in Encoded(batch, dim),
                gt_inputs \in [1..batch -> TargetValues], seed \in SeedValues,
                train_mode \in BOOLEAN, mask \in [1..batch -> [1..hidden -> {0, 1}]] :
                /\ ~train_mode => \A ex \in 1..batch : \A k \in 1..hidden : mask[ex][k] = 1
                /\ graph = [encoders |-> <<first, second>>,
                            layers |-> IF hidden = 0 THEN <<>> ELSE <<hidden>>,
                            gt_inputs |-> gt_inputs, seed |-> seed,
                            train_mode |-> train_mode, mask |-> mask]
    /\ regressor = NoRegressor
    /\ earlier = NoEarlier

\* SequenceRegressor(name, encoders, data_id, layers): the two encoders of the
\* graph and any further ones; two regressors are constructed
ConstructSequenceRegressor ==
    /\ ~earlier.built
    /\ \E n \in 0..(MaxEncoders - 2) :
          \E further \in FurtherEncoders(Len(graph.gt_inputs), n, MaxVectorCells) :
             LET encoders == graph.encoders \o further
             IN  /\ regressor' = SequenceRegressorInit(encoders, graph.layers, graph)
                 /\ earlier' = IF regressor = NoRegressor THEN NoEarlier
                               ELSE [built |-> TRUE,
                                     same_encoders |-> regressor.encoders = encoders,
                                     predicted |-> regressor.predicted,
                                     cost |-> regressor.cost]
                 /\ UNCHANGED graph

RegIdle ==
    /\ graph = [encoders |-> <<>>]
    /\ regressor = NoRegressor
    /\ earlier = NoEarlier

-----------------------------------------------------------------------------
(* SequenceRegressor.feed_dict, sequence_regressor.py *)

\* the series a dataset can hold; the regressor's data_id is one of them
SeriesNames == {"source", "target"}
data_id == "target"

\* the examples of a series: lists of at most MaxTargets values
RECURSIVE ListsUpTo(_, _)
ListsUpTo(values, n) ==
    IF n = 0 THEN {<<>>}
    ELSE ListsUpTo(values, n - 1) \cup [1..n -> values]

\* dataset.get_series(name, allow_none=True): None for a series the dataset lacks
GetSeries(ds, name) ==
    IF name \in DOMAIN ds THEN [is_none |-> FALSE, series |-> ds[name]]
    ELSE [is_none |-> TRUE, series |-> <<>>]

\* the length of zip(*sentences_list): that of the shortest list, 0 without lists
RECURSIVE ZipLenTo(_, _)
ZipLenTo(sentences_list, n) ==
    IF n = 0 THEN 0
    ELSE IF n = 1 THEN Len(sentences_list[1])
    ELSE LET rest == ZipLenTo(sentences_list, n - 1)
         IN  IF Len(sentences_list[n]) < rest THEN Len(sentences_list[n]) ELSE rest

\* list(zip(*sentences_list))
Zip(sentences_list) ==
    [i \in 1..ZipLenTo(sentences_list, Len(sentences_list)) |->
        [ex \in 1..Len(sentences_list) |-> sentences_list[ex][i]]]

FeedIndexError == "IndexError: list index out of range"

\* SequenceRegressor.feed_dict(dataset, train): the dictionary returned, or the
\* error raised
FeedDict(ds, train) ==
    LET sentences == GetSeries(ds, data_id)
        zipped == Zip(sentences.series)
    IN  IF sentences.is_none
        THEN [error |-> NoError, fd |-> [placeholder \in {"train_mode"} |-> <<train>>]]
        ELSE IF Len(zipped) = 0
        THEN [error |-> FeedIndexError, fd |-> <<>>]
        ELSE [error |-> NoError,
              fd |-> [placeholder \in {"gt_inputs", "train_mode"} |->
                         IF placeholder = "gt_inputs" THEN <<zipped[1]>>
                         ELSE <<train>>]]

NoFeed == [called |-> FALSE]

\* the dataset of one batch
FeedInit ==
    /\ \E names \in SUBSET SeriesNames, batch \in 0..MaxBatch :
          \E target \in [1..batch -> ListsUpTo(TargetValues, MaxTargets)] :
             dataset = [name \in names |->
                           IF name = data_id THEN target
                           ELSE [ex \in 1..batch |-> <<0>>]]
    /\ feed = NoFeed

\* regressor.feed_dict(dataset, train)
CallFeedDict ==
    /\ \E train \in BOOLEAN :
          LET returned == FeedDict(dataset, train)
          IN  feed' = [called |-> TRUE, train |-> train,
                       error |-> returned.error, fd |-> returned.fd]
    /\ UNCHANGED dataset

FeedIdle ==
    /\ dataset = <<>>
    /\ feed = NoFeed

-----------------------------------------------------------------------------
(* from_file_list, numpy_reader.py *)

\* the data files the lines of a list file can name, and the list files
DataNames == {<<"a">>, <<"b">>}
ListNames == <<"l1", "l2", "l3", "l4">>
\* shapes of the stored arrays, and the shapes that can be declared
ShapeValues == {<<2>>, <<1, 2>>, <<2, 1>>}
DeclaredShapes == {<<2>>, <<1, 2>>}
\* the generator objects that calls of the loader return
GeneratorIds == {1, 2}

Whitespace == {" ", "\n"}

\* line.rstrip()
RECURSIVE Rstrip(_)
Rstrip(line) ==
    IF line = <<>> THEN line
    ELSE IF line[Len(line)] \in Whitespace THEN Rstrip(SubSeq(line, 1, Len(line) - 1))
    ELSE line

\* os.path.join(a, b)
OsPathJoin(a, b) ==
    IF b # <<>> /\ b[1] = "/" THEN b
    ELSE IF a = <<>> \/ a[Len(a)] = "/" THEN a \o b
    ELSE a \o <<"/">> \o b

\* os.path.join(prefix, line.rstrip()) + suffix
PathOf(prefix, line, suffix) == OsPathJoin(prefix, Rstrip(line)) \o suffix

\* arr_shape != shape, of two lists of integers
ShapesDifferInRank(arr_shape, shape) == Len(arr_shape) # Len(shape)
ShapesDiffer(arr_shape, shape) == arr_shape # shape

\* for line in f_list: the line read after line_index lines
LineAtFromEnd(f_list, line_index) == f_list[Len(f_list) - line_index]
LineAt(f_list, line_index) == f_list[line_index + 1]

\* from_file_list(prefix, shape, suffix, default_tensor_name): the closure load
FromFileListResult(prefix, shape, suffix, default_tensor_name) ==
    [made |-> TRUE, prefix |-> prefix, shape |-> shape, suffix |-> suffix,
     default_tensor_name |-> default_tensor_name, opened |-> <<>>]

NoLoader == [made |-> FALSE]
NoGenerator == [status |-> "none"]

\* The body of load from where a generator stands to its next yield, to the
\* exception it raises, or to its end.
RECURSIVE Resume(_, _, _)
Resume(gen, ld, dk) ==
    IF gen.file_index > Len(gen.files) THEN [gen EXCEPT !.status = "finished"]
    ELSE LET list_file == gen.files[gen.file_index]
             f_list == dk.lists[list_file]
             opened == IF gen.line_index = 0 THEN Append(gen.opened, <<list_file>>)
                       ELSE gen.opened
         IN  IF gen.line_index >= Len(f_list)
             THEN Resume([gen EXCEPT !.file_index = @ + 1, !.line_index = 0,
                                     !.opened = opened], ld, dk)
             ELSE LET line == LineAt(f_list, gen.line_index)
                      path == PathOf(ld.prefix, line, ld.suffix)
                  IN  IF path \notin DOMAIN dk.arrays
                      THEN [gen EXCEPT !.status = "raised", !.line_index = @ + 1,
                                       !.opened = opened,
                                       !.error = [kind |-> "FileNotFoundError",
                                                  path |-> path]]
                      ELSE LET arr == dk.arrays[path]
                               arr_shape == arr.shape
                           IN  IF ShapesDiffer(arr_shape, ld.shape)
                               THEN [gen EXCEPT !.status = "raised", !.line_index = @ + 1,
                                                !.opened = Append(opened, path),
                                                !.error = [kind |-> "ValueError",
                                                           expected |-> ld.shape,
                                                           found |-> arr_shape]]
                               ELSE [gen EXCEPT !.status = "suspended",
                                                !.line_index = @ + 1,
                                                !.opened = Append(opened, path),
                                                !.yielded = Append(@, arr)]

\* load(files): a generator that has not started to run
NewGenerator(files) ==
    [status |-> "created", files |-> files, file_index |-> 1, line_index |-> 0,
     yielded |-> <<>>, opened |-> <<>>, error |-> [kind |-> "none"]]

\* the contents of n list files with `lines` lines in all
RECURSIVE ListContents(_, _)
ListContents(n, lines) ==
    IF n = 0 THEN {<<>>}
    ELSE UNION {{<<first>> \o rest : first \in [1..k -> DataNames],
                                     rest \in ListContents(n - 1, lines - k)} :
                k \in 0..lines}

\* The disk: list files, each line the name of a data file and a newline, and
\* the arrays stored where the lines point or elsewhere.
ReadInit ==
    /\ \E n \in 0..MaxFiles, stored \in SUBSET DataNames :
          \E contents \in ListContents(n, MaxLines), shapes \in [stored -> ShapeValues] :
             disk = [files |-> [i \in 1..n |-> ListNames[i]],
                     lists |-> [list_file \in {ListNames[i] : i \in 1..n} |->
                                   LET i == CHOOSE i \in 1..n : ListNames[i] = list_file
                                   IN  [l \in 1..Len(contents[i]) |->
                                           contents[i][l] \o <<"\n">>]],
                     arrays |-> [path \in {PathOf(<<"d">>, name, <<".npz">>) : name \in stored} |->
                                   LET name == CHOOSE name \in stored :
                                                  PathOf(<<"d">>, name, <<".npz">>) = path
                                   IN  [file |-> name, shape |-> shapes[name]]]]
    /\ loader = NoLoader
    /\ generators = [g \in GeneratorIds |-> NoGenerator]

\* load = from_file_list(prefix, shape, suffix)
CallFromFileList ==
    /\ ~loader.made
    /\ \E shape \in DeclaredShapes :
          loader' = FromFileListResult(<<"d">>, shape, <<".npz">>, "arr_0")
    /\ UNCHANGED <<disk, generators>>

\* g = load(files)
CallLoad ==
    /\ loader.made
    /\ \E g \in GeneratorIds :
          /\ generators[g].status = "none"
          /\ generators' = [generators EXCEPT ![g] = NewGenerator(disk.files)]
    /\ UNCHANGED <<disk, loader>>

\* next(g)
NextArray ==
    /\ \E g \in GeneratorIds :
          /\ generators[g].status \in {"created", "suspended"}
          /\ generators' = [generators EXCEPT ![g] = Resume(generators[g], loader, disk)]
    /\ UNCHANGED <<disk, loader>>

ReadIdle ==
    /\ disk = [files |-> <<>>]
    /\ loader = NoLoader
    /\ generators = <<>>

-----------------------------------------------------------------------------
(* Specifications *)

\* the training loop of a ReinforceObjective
Init == RLInit /\ ScoreIdle /\ EncIdle /\ RnnIdle /\ RegIdle /\ FeedIdle /\ ReadIdle
Next == TrainStep /\ UNCHANGED <<scoreVars, encVars, rnnVars, regVars, feedVars, readVars>>
Spec == Init /\ [][Next]_vars

\* one evaluation of the loss of a ReinforceObjective
NextLoss == FirstStep /\ UNCHANGED <<scoreVars, encVars, rnnVars, regVars, feedVars, readVars>>
SpecLoss == Init /\ [][NextLoss]_vars

\* one call of _score_with_reward_function
InitScore == RLIdle /\ ScoreInit /\ EncIdle /\ RnnIdle /\ RegIdle /\ FeedIdle /\ ReadIdle
NextScore == (ScoreColumn \/ ScoreReturn) /\ UNCHANGED <<encVars, rnnVars, regVars, feedVars, readVars>>
SpecScore == InitScore /\ [][NextScore]_vars

\* the construction of one encoder and the calls of get_dependencies on it
InitBuild == RLIdle /\ ScoreIdle /\ EncInit /\ RnnIdle /\ RegIdle /\ FeedIdle /\ ReadIdle
NextBuild ==
    /\ \/ ConstructRecurrentEncoder
       \/ ConstructSentenceEncoder
       \/ ConstructFactoredEncoder
       \/ ConstructDeepSentenceEncoder
       \/ CallGetDependencies
    /\ UNCHANGED <<rlVars, scoreVars, rnnVars, regVars, feedVars, readVars>>
SpecBuild == InitBuild /\ [][NextBuild]_vars

\* the rnn tensor of one encoder evaluated on one batch
InitRnn == RLIdle /\ ScoreIdle /\ EncIdle /\ RnnInit /\ RegIdle /\ FeedIdle /\ ReadIdle
NextRnn == EvaluateRnn /\ UNCHANGED <<rlVars, scoreVars, encVars, regVars, feedVars, readVars>>
SpecRnn == InitRnn /\ [][NextRnn]_vars

\* regressors constructed over the same two encoders and the same batch
InitRegress == RLIdle /\ ScoreIdle /\ EncIdle /\ RnnIdle /\ RegInit /\ FeedIdle /\ ReadIdle
NextRegress == ConstructSequenceRegressor /\ UNCHANGED <<rlVars, scoreVars, encVars, rnnVars, feedVars, readVars>>
SpecRegress == InitRegress /\ [][NextRegress]_vars

\* calls of feed_dict of a regressor on the dataset of one batch
InitFeed == RLIdle /\ ScoreIdle /\ EncIdle /\ RnnIdle /\ RegIdle /\ FeedInit /\ ReadIdle
NextFeed == CallFeedDict /\ UNCHANGED <<rlVars, scoreVars, encVars, rnnVars, regVars, readVars>>
SpecFeed == InitFeed /\ [][NextFeed]_vars

\* a loader made by from_file_list and the generators it returns
InitRead == RLIdle /\ ScoreIdle /\ EncIdle /\ RnnIdle /\ RegIdle /\ FeedIdle /\ ReadInit
NextRead ==
    /\ \/ CallFromFileList
       \/ CallLoad
       \/ NextArray
    /\ UNCHANGED <<rlVars, scoreVars, encVars, rnnVars, regVars, feedVars>>
SpecRead == InitRead /\ [][NextRead]_vars

-----------------------------------------------------------------------------
(* Claims *)

\* C1: with subtract_baseline, after any number of evaluations of the loss the
\* sample-count accumulator equals the number of samples drawn in all of them
\* (batch_size x sample_size each) and the reward accumulator equals the sum
\* of all rewards sampled in them.
C1_AccumulatorsAreTotals ==
    objective.subtract_baseline =>
        /\ reward_counter = total_samples
        /\ reward_sum = total_rewards

C1_Witness ==
    /\ objective.subtract_baseline
    /\ objective.sample_size = 2
    /\ steps >= 2
    /\ reward_counter = 2 * steps
    /\ reward_sum > steps

\* C2: with subtract_baseline, when every reward sampled so far equals the same
\* constant c, then from the second evaluation on the baseline equals c and
\* every adjusted reward used in the evaluation is 0.
C2_ConstantRewardBaseline ==
    \A c \in RewardValues :
        (objective.subtract_baseline /\ steps >= 2 /\ rewards_seen = {c}) =>
            /\ RatEq(run.baseline, Rat(c))
            /\ \A e \in Entries(run.rewards_used) :
                  RatEq(run.rewards_used[e[1]][e[2]], Rat(0))

C2_Witness ==
    /\ objective.subtract_baseline
    /\ steps = 3
    /\ rewards_seen = {2}
    /\ run.batch_size = 2
    /\ RatEq(run.baseline, Rat(2))

\* The sequence log-probability of example b of the one sample: the sum of
\* its token log-probabilities over all time positions.
RECURSIVE SumOfPositions(_, _, _)
SumOfPositions(word_logprobs, b, positions) ==
    IF positions = {} THEN 0
    ELSE LET t == CHOOSE t \in positions : TRUE
         IN  word_logprobs[t][b] + SumOfPositions(word_logprobs, b, positions \ {t})

RECURSIVE BanditSum(_)
BanditSum(examples) ==
    IF examples = {} THEN 0
    ELSE LET b == CHOOSE b \in examples : TRUE
             word_logprobs == run.samples_word_logprobs[1]
         IN  (0 - run.samples_rewards[1][b])
                 * SumOfPositions(word_logprobs, b, 1..Len(word_logprobs))
             + BanditSum(examples \ {b})

BanditObjective ==
    /\ steps > 0
    /\ objective.sample_size = 1
    /\ ~objective.normalize
    /\ objective.ce_smoothing = 0
    /\ ~objective.subtract_baseline

\* C3: with sample_size = 1, normalize = False, ce_smoothing = 0 and no
\* baseline, the loss is the mean over the batch of -reward x sequence
\* log-probability of the one sample.
C3_BanditLoss ==
    BanditObjective =>
        RatEq(run.batch_loss, <<BanditSum(1..run.batch_size), run.batch_size>>)

C3_Witness ==
    /\ BanditObjective
    /\ run.batch_size = 2
    /\ Len(run.samples_word_logprobs[1]) = 2
    /\ run.samples_rewards[1] = <<1, 2>>
    /\ run.samples_word_logprobs[1] = <<<<-1, 0>>, <<-1, -1>>>>
    /\ RatEq(run.batch_loss, <<2, 1>>)

\* The words of a column before its first end-of-sequence or padding token.
IsStop(index) == IndexToWord(index) \in {END_TOKEN, PAD_TOKEN}

FirstStop(indices) ==
    LET stops == {i \in 1..Len(indices) : IsStop(indices[i])}
    IN  IF stops = {} THEN Len(indices) + 1
        ELSE CHOOSE i \in stops : \A j \in stops : i <= j

Pieces(indices) == [i \in 1..(FirstStop(indices) - 1) |-> IndexToWord(indices[i])]

EndsWithMarker(word) ==
    Len(word) >= 2 /\ SubSeq(word, Len(word) - 1, Len(word)) = BpeMarker

\* Every piece that ends in "@@" and has a successor is joined, without the
\* marker, to the piece that follows it.
RECURSIVE Merged(_)
Merged(pieces) ==
    IF Len(pieces) <= 1 THEN pieces
    ELSE LET rest == Merged(Tail(pieces))
         IN  IF EndsWithMarker(pieces[1])
             THEN <<SubSeq(pieces[1], 1, Len(pieces[1]) - 2) \o rest[1]>> \o Tail(rest)
             ELSE <<pieces[1]>> \o rest

ExpectedCall(column) ==
    [hyps |-> <<Merged(Pieces(Column(hypotheses, column)))>>,
     refs |-> <<Merged(Pieces(Column(references, column)))>>]

\* C4: when _score_with_reward_function returns, the reward function has been
\* called once per batch column, in batch order, there is one reward per
\* column, and the token lists of call j are the words of column j before its
\* first end-of-sequence or padding token, with the "@@" pieces merged.
C4_ScoreCallsPerColumn ==
    score_pc = "returned" =>
        /\ Len(reward_calls) = Len(references[1])
        /\ Len(rewards) = Len(references[1])
        /\ \A j \in 1..Len(reward_calls) : reward_calls[j] = ExpectedCall(j)

\* The same, for the columns whose hypothesis and reference both hold a word
\* before the first end-of-sequence or padding token.
ScoreCallsOfNonEmptyColumns ==
    score_pc = "returned" =>
        /\ Len(reward_calls) = Len(references[1])
        /\ Len(rewards) = Len(references[1])
        /\ \A j \in 1..Len(reward_calls) :
              /\ Pieces(Column(hypotheses, j)) # <<>> =>
                    reward_calls[j].hyps = ExpectedCall(j).hyps
              /\ Pieces(Column(references, j)) # <<>> =>
                    reward_calls[j].refs = ExpectedCall(j).refs
              /\ Pieces(Column(hypotheses, j)) = <<>> =>
                    reward_calls[j].hyps = << << <<>> >> >>
              /\ Pieces(Column(references, j)) = <<>> =>
                    reward_calls[j].refs = << << <<>> >> >>

\* The arguments of an encoder that the specification calls valid.
ValidSize(rnn_size) == rnn_size > 0
ValidDirection(rnn_direction) == rnn_direction \in {"forward", "backward", "both"}
ValidCell(rnn_cell) == rnn_cell \in {"NematusGRU", "GRU", "LSTM"}
ValidDropout(dropout_keep_prob) == 0 < dropout_keep_prob /\ dropout_keep_prob <= 10

InvalidFields(args) ==
    {f \in {"rnn_size", "rnn_direction", "rnn_cell", "dropout_keep_prob"} :
        \/ f = "rnn_size" /\ ~ValidSize(args.rnn_size)
        \/ f = "rnn_direction" /\ ~ValidDirection(args.rnn_direction)
        \/ f = "rnn_cell" /\ ~ValidCell(args.rnn_cell)
        \/ f = "dropout_keep_prob" /\ ~ValidDropout(args.dropout_keep_prob)}

\* The argument an error message names.
FieldNamed(error) ==
    CASE error = SizeError -> "rnn_size"
      [] error = DirectionError -> "rnn_direction"
      [] error = CellError -> "rnn_cell"
      [] error = DropoutError -> "dropout_keep_prob"
      [] OTHER -> "none"

\* C5: RecurrentEncoder(...) succeeds exactly when rnn_size > 0, the direction
\* and the cell type are enumerated ones and dropout_keep_prob is in (0, 1];
\* otherwise it raises a ValueError that names an invalid argument; on success
\* the encoder holds the arguments as given, none replaced by a default.
C5_ConstructionValidates ==
    call.op = "RecurrentEncoder" =>
        /\ (call.error = NoError) <=> (InvalidFields(call.args) = {})
        /\ call.error # NoError =>
              /\ FieldNamed(call.error) \in InvalidFields(call.args)
              /\ call.self = 0
        /\ call.error = NoError =>
              /\ call.self = Len(parts)
              /\ parts[call.self].rnn_spec =
                    [size |-> call.args.rnn_size,
                     direction |-> call.args.rnn_direction,
                     cell_type |-> call.args.rnn_cell]
              /\ parts[call.self].dropout_keep_prob = call.args.dropout_keep_prob
              /\ parts[call.self].input_sequence = call.args.input_sequence

C5_Witness ==
    /\ call.op = "RecurrentEncoder"
    /\ call.args.rnn_size = 0
    /\ call.args.rnn_direction = "sideways"
    /\ call.args.dropout_keep_prob = 11
    /\ call.error = SizeError

\* C6: when the construction of an encoder fails on an invalid size,
\* direction, cell type or dropout keep probability, no object has been
\* constructed by the time the error is raised.
C6_NoPartialConstruction ==
    call.error \in {SizeError, DirectionError, CellError, DropoutError} =>
        call.created = <<>>

\* C7: DeepSentenceEncoder with lists of different lengths fails before
\* anything is constructed; with k >= 1 valid sizes and k valid directions it
\* constructs an embedded sequence and exactly k recurrent layers, layer i of
\* size rnn_sizes[i] and direction rnn_directions[i], the first reading the
\* embedded sequence and each other one the layer before it, and the encoder
\* itself is the last layer.
C7_DeepChain ==
    call.op = "DeepSentenceEncoder" =>
        LET rnn_sizes == call.args.rnn_sizes
            rnn_directions == call.args.rnn_directions
            k == Len(rnn_sizes)
        IN  /\ k # Len(rnn_directions) =>
                  call.error = LengthError /\ call.created = <<>>
            /\ ( /\ k >= 1
                 /\ k = Len(rnn_directions)
                 /\ \A i \in 1..k : ValidSize(rnn_sizes[i]) /\ ValidDirection(rnn_directions[i])
                 /\ ValidCell(call.args.rnn_cell)
                 /\ ValidDropout(call.args.dropout_keep_prob) ) =>
                  call.error = NoError
            /\ call.error = NoError =>
                  /\ k >= 1
                  /\ Len(call.created) = k + 1
                  /\ parts[call.created[1]].class = "EmbeddedSequence"
                  /\ \A i \in 1..k :
                        LET layer == parts[call.created[i + 1]]
                        IN  /\ layer.rnn_spec.size = rnn_sizes[i]
                            /\ layer.rnn_spec.direction = rnn_directions[i]
                            /\ layer.rnn_spec.cell_type = call.args.rnn_cell
                            /\ layer.input_sequence = call.created[i]
                  /\ call.self = call.created[k + 1]

C7_Witness ==
    /\ call.op = "DeepSentenceEncoder"
    /\ call.error = NoError
    /\ call.args.rnn_sizes = <<1, 2, 1>>
    /\ call.args.rnn_directions = <<"forward", "backward", "both">>
    /\ Len(parts) = 6

\* The n-th upstream input of a part (0 when there is none).
RECURSIVE NthUpstream(_, _)
NthUpstream(part, n) ==
    IF n = 0 \/ part = 0 THEN part
    ELSE NthUpstream(parts[part].input_sequence, n - 1)

\* The model parts of the chain that starts at a part: the part and its
\* upstream inputs, up to the first that is no model part.
ChainOfModelParts(part) ==
    {NthUpstream(part, n) : n \in
        {n \in 0..Len(parts) :
            \A m \in 0..n : /\ NthUpstream(part, m) # 0
                           /\ parts[NthUpstream(part, m)].model_part}}

\* C9: get_dependencies of an encoder returns the encoder, and recursively the
\* dependencies of its upstream input when that is a model part; an upstream
\* input that is no model part contributes nothing.
C9_DependenciesOfChain ==
    deps.of # 0 => deps.result = ChainOfModelParts(deps.of)

C9_Witness ==
    /\ call.op = "DeepSentenceEncoder"
    /\ Len(call.args.rnn_sizes) = 3
    /\ deps.of = call.self
    /\ deps.result = {3, 4, 5, 6}

\* The tokens of an example from position i to its length, the last one first.
TokensFromEnd(example, length, i) ==
    [j \in 1..(length - i + 1) |-> example[length - j + 1]]

\* C8: for a backward encoder and every example of valid length L, the rnn
\* reads the input reversed within its first L positions only, and its outputs
\* are reversed back within the first L positions only: output position i <= L
\* is the cell's output after it has read tokens L down to i, so it belongs to
\* input token i as in a forward encoder (where it follows tokens 1 up to i);
\* no padding enters the valid part, positions past L keep the zero output,
\* and reversing twice gives back the input.
C8_BackwardAlignment ==
    (rnn # NoRnn /\ rnn_self.rnn_spec.direction \in {"forward", "backward"}) =>
        \A b \in 1..Len(rnn_self.rnn_input) :
            LET x == rnn_self.rnn_input[b]
                L == rnn_self.lengths[b]
                backward == rnn_self.rnn_spec.direction = "backward"
            IN  /\ \A t \in 1..Len(x) :
                      rnn.rnn_input[b][t] = IF backward /\ t <= L THEN x[L - t + 1] ELSE x[t]
                /\ \A i \in 1..L :
                      LET output == rnn.outputs[b][i]
                      IN  /\ output = IF backward THEN TokensFromEnd(x, L, i)
                                      ELSE SubSeq(x, 1, i)
                          /\ output[Len(output)] = x[i]
                          /\ \A j \in 1..Len(output) : output[j] # PadValue
                /\ \A i \in (L + 1)..Len(x) : rnn.outputs[b][i] = ZeroOutput
                /\ backward =>
                      ReverseSequence(rnn.rnn_input, rnn_self.lengths)[b] = x

C8_Witness ==
    /\ rnn # NoRnn
    /\ rnn_self.rnn_spec.direction = "backward"
    /\ rnn_self.rnn_input = <<<<1, 2, 0>>, <<2, 1, 1>>>>
    /\ rnn_self.lengths = <<2, 3>>
    /\ rnn.outputs[1] = <<<<2, 1>>, <<2>>, <<>>>>
    /\ rnn.outputs[2] = <<<<1, 1, 2>>, <<1, 1>>, <<1>>>>

\* The squared errors of a batch of predictions.
SquaredErrors(predicted, gt_inputs) ==
    [ex \in 1..Len(predicted) |->
        (predicted[ex][1] - gt_inputs[ex]) * (predicted[ex][1] - gt_inputs[ex])]

\* A summary vector of zeros for every example.
ZerosLike(encoded) ==
    [ex \in 1..Len(encoded) |-> [j \in 1..Len(encoded[ex]) |-> 0]]

\* C10: prediction and loss of a SequenceRegressor depend only on the
\* difference of the summary vectors of its first two encoders: a regressor
\* constructed before over the same two encoders and other further encoders
\* had the same prediction and the same cost, a regressor given the
\* difference and a zero vector predicts the same, and train_loss and
\* runtime_loss are the same sum over the batch of squared errors.
C10_OnlyFirstTwoEncoders ==
    regressor # NoRegressor =>
        /\ Len(regressor.predicted) = Len(graph.gt_inputs)
        /\ \A ex \in 1..Len(regressor.predicted) : Len(regressor.predicted[ex]) = 1
        /\ regressor.train_loss = SumSeq(SquaredErrors(regressor.predicted, graph.gt_inputs))
        /\ regressor.runtime_loss = regressor.train_loss
        /\ earlier.built =>
              /\ earlier.predicted = regressor.predicted
              /\ earlier.cost = regressor.train_loss
        /\ LET difference == [ex \in 1..Len(graph.gt_inputs) |->
                                [j \in 1..Len(graph.encoders[1][ex]) |->
                                    graph.encoders[1][ex][j] - graph.encoders[2][ex][j]]]
           IN  regressor.predicted =
                  SequenceRegressorInit(<<difference, ZerosLike(difference)>>,
                                        graph.layers, graph).predicted

C10_Witness ==
    /\ earlier.built
    /\ ~earlier.same_encoders
    /\ Len(regressor.encoders) = 3
    /\ graph.layers = <<1>>
    /\ graph.train_mode
    /\ regressor.train_loss > 0

\* C11: feed_dict never fails; it binds the training-mode flag to the train
\* argument in every call, it binds ground-truth values exactly when the
\* dataset has the series data_id, and for a dataset without that series it
\* binds the training-mode flag only.
C11_FeedDictBinds ==
    feed.called =>
        /\ feed.error = NoError
        /\ "train_mode" \in DOMAIN feed.fd
        /\ feed.fd["train_mode"] = <<feed.train>>
        /\ ("gt_inputs" \in DOMAIN feed.fd) <=> (data_id \in DOMAIN dataset)
        /\ data_id \notin DOMAIN dataset => DOMAIN feed.fd = {"train_mode"}

\* What holds of feed_dict: the above for a dataset without the series and for
\* a series of at least one example, all non-empty, whose first values are then
\* bound; for any other series the call raises.
FeedDictUnlessEmpty ==
    feed.called =>
        LET present == data_id \in DOMAIN dataset
            empty == present /\ (\/ Len(dataset[data_id]) = 0
                                 \/ \E ex \in 1..Len(dataset[data_id]) :
                                       Len(dataset[data_id][ex]) = 0)
        IN  /\ (feed.error # NoError) <=> empty
            /\ ~empty =>
                  /\ feed.fd["train_mode"] = <<feed.train>>
                  /\ DOMAIN feed.fd = IF present THEN {"gt_inputs", "train_mode"}
                                      ELSE {"train_mode"}
                  /\ present =>
                        feed.fd["gt_inputs"] =
                           <<[ex \in 1..Len(dataset[data_id]) |-> dataset[data_id][ex][1]]>>

\* The lines of the list files, in the order of the files and of their lines.
RECURSIVE LinesFrom(_)
LinesFrom(i) ==
    IF i > Len(disk.files) THEN <<>>
    ELSE disk.lists[disk.files[i]] \o LinesFrom(i + 1)

\* The data file a line of a list file names.
NamedBy(line) == <<"d", "/", line[1], ".npz">>
Stored(line) == NamedBy(line) \in DOMAIN disk.arrays
Matches(line) == Stored(line) /\ disk.arrays[NamedBy(line)].shape = loader.shape

Started(g) == generators[g].status \in {"suspended", "raised", "finished"}

\* C12: the loader raises the shape-mismatch error exactly when the array of
\* the entry it has loaded has a shape other than the declared one: every
\* array yielded has exactly the declared shape, the error is raised at an
\* entry whose array is stored with another shape and at no other entry, and
\* the error names the declared shape and the shape found.
C12_ShapeMismatchExactly ==
    \A g \in GeneratorIds :
        Started(g) =>
            LET gen == generators[g]
                entries == LinesFrom(1)
                k == Len(gen.yielded)
                mismatch == gen.status = "raised" /\ gen.error.kind = "ValueError"
            IN  /\ \A i \in 1..k : Matches(entries[i])
                /\ \A i \in 1..k : gen.yielded[i].shape = loader.shape
                /\ mismatch =>
                      /\ k < Len(entries)
                      /\ gen.error.expected = loader.shape
                      /\ gen.error.found = disk.arrays[NamedBy(entries[k + 1])].shape
                      /\ gen.error.found # gen.error.expected
                /\ ~mismatch =>
                      \/ gen.status = "suspended"
                      \/ gen.status = "finished" /\ k = Len(entries)
                      \/ gen.status = "raised" /\ k < Len(entries) /\ ~Stored(entries[k + 1])

C12_Witness ==
    \E g \in GeneratorIds :
        /\ generators[g].status = "raised"
        /\ generators[g].error = [kind |-> "ValueError", expected |-> <<1, 2>>,
                                  found |-> <<2, 1>>]
        /\ Len(generators[g].yielded) = 1

\* The data files a generator has opened.
OpenedData(gen) == SelectSeq(gen.opened, LAMBDA path : Len(path) > 1)

\* C13: from_file_list and the call of the loader open no file; a generator
\* yields the arrays the lines name, in the order of the list files and of the
\* lines in each, one for each line; it has opened the data files up to the
\* entry it stands at and no further; it ends after the last line; it raises
\* at the first entry that does not load with the declared shape, after it has
\* yielded all the arrays before it; and every generator runs from the first
\* entry on, whatever another generator of the same loader has done.
C13_LazyRestartable ==
    /\ loader.made => loader.opened = <<>>
    /\ \A g \in GeneratorIds :
          LET gen == generators[g]
              entries == LinesFrom(1)
          IN  /\ gen.status = "created" => gen.opened = <<>> /\ gen.yielded = <<>>
              /\ Started(g) =>
                    LET k == Len(gen.yielded)
                        reached == IF gen.status = "raised" /\ gen.error.kind = "ValueError"
                                   THEN k + 1 ELSE k
                    IN  /\ k <= Len(entries)
                        /\ \A i \in 1..k : /\ Matches(entries[i])
                                           /\ gen.yielded[i] = disk.arrays[NamedBy(entries[i])]
                        /\ OpenedData(gen) = [i \in 1..reached |-> NamedBy(entries[i])]
                        /\ gen.status = "suspended" => k >= 1
                        /\ gen.status = "finished" => k = Len(entries)
                        /\ gen.status = "raised" =>
                              k < Len(entries) /\ ~Matches(entries[k + 1])
    /\ \A g \in GeneratorIds, h \in GeneratorIds :
          (Started(g) /\ Started(h)) =>
              \A i \in 1..Len(generators[g].yielded) :
                  i <= Len(generators[h].yielded) =>
                      generators[g].yielded[i] = generators[h].yielded[i]

C13_Witness ==
    /\ Len(disk.files) = 2
    /\ Len(disk.lists["l1"]) = 2
    /\ generators[1].status = "finished"
    /\ Len(generators[1].yielded) = 3
    /\ generators[1].yielded[1] # generators[1].yielded[2]
    /\ generators[2].status = "suspended"
    /\ Len(generators[2].yielded) = 1

\* C14: with subtract_baseline, the baseline subtracted in a training step is
\* the average of the rewards of the previous steps: the quotient of the two
\* running totals as they stood before this step added its own rewards and
\* its own number of samples.
C14_BaselineOfPreviousSteps ==
    (run # NoRun /\ objective.subtract_baseline) =>
        run.baseline = Baseline(prev_totals[1], prev_totals[2])

\* What holds instead: the baseline is the quotient of the totals this step
\* has already added to, so a step's own rewards enter its baseline.
BaselineOfTotalsAfter ==
    (run # NoRun /\ objective.subtract_baseline) =>
        /\ run.baseline = Baseline(reward_sum, reward_counter)
        /\ reward_sum = prev_totals[1] + RewardIncrement(run.samples_rewards)
        /\ reward_counter = prev_totals[2]
                              + CounterIncrement(run.batch_size, objective.sample_size)

====
